---- MODULE Spec2Model ----
(***************************************************************************)
(* Model of the voice-assistant backend: the Intent Resolver               *)
(* (backend/services/llm_service.py), the Action Dispatcher                *)
(* (execute_tool_call in backend/main.py), the media integration           *)
(* (backend/services/spotify_service.py) and the two gateway transports    *)
(* (POST /process and the /ws loop in backend/main.py).                    *)
(*                                                                         *)
(* Python values are modelled as follows: None is the record None, a str   *)
(* is S(text), a bool is B(b), an int is N(n), a list is L(seq), a dict is *)
(* a TLA+ function from its keys (TLA+ strings) to Python values.  No dict *)
(* of the model has the single key "none", "str", "bool", "int" or "list", *)
(* so the kinds never coincide.                                            *)
(***************************************************************************)
EXTENDS Naturals, Sequences, FiniteSets, TLC

\* ------------------------------------------------------------------ bounds

\* Number of text messages one persistent connection may receive.
MaxMsgs == 2

\* ------------------------------------------------------------ Python values

None == [none |-> TRUE]

S(s) == [str |-> s]

B(b) == [bool |-> b]

N(n) == [int |-> n]

L(q) == [list |-> q]

EmptyDict == <<>>

IsStr(v) == DOMAIN v = {"str"}

IsList(v) == DOMAIN v = {"list"}

IsDict(v) == DOMAIN v \cap {"none", "str", "bool", "int", "list"} = {}

\* Python truthiness of the values the model uses: None, "" and empty
\* containers are falsy.
Truthy(v) ==
    IF v = None THEN FALSE
    ELSE IF IsStr(v) THEN v.str # ""
    ELSE IF IsList(v) THEN v.list # <<>>
    ELSE DOMAIN v # {}

\* str(v) as an f-string renders it (None and str only).
Fmt(v) == IF v = None THEN "None" ELSE v.str

\* dict.get(key, default)
Get(d, k, default) == IF k \in DOMAIN d THEN d[k] ELSE default

\* d with d[k] = v (dict item assignment)
SetItem(d, k, v) == [x \in DOMAIN d \cup {k} |-> IF x = k THEN v ELSE d[x]]

\* ------------------------------------------------- Intent Resolver (LLM)

\* llm_service.py:108-115: the fixed system instruction, with the line
\* breaks and indentation of the source literal.
SystemMessage ==
    [role |-> S("system"),
     content |->
       S("You are a helpful voice assistant with access to Spotify and Calendar.\n"
         \o "                Be concise in responses since this is voice interaction.\n"
         \o "                Current date/time context will be provided when needed.\n"
         \o "                Always use the appropriate tool for user requests.")]

\* Variant: the context is appended after the user message.
BuildMessagesContextLast(user_input, context) ==
    <<SystemMessage, [role |-> S("user"), content |-> S(user_input)]>>
      \o (IF Truthy(context) THEN context.list ELSE <<>>)

\* llm_service.py:107-121: system instruction, then the context (if truthy),
\* then the user message.
BuildMessages(user_input, context) ==
    <<SystemMessage>>
      \o (IF Truthy(context) THEN context.list ELSE <<>>)
      \o <<[role |-> S("user"), content |-> S(user_input)]>>

\* The JSON text of a tool call's arguments, by what json.loads makes of it:
\* malformed text raises, "null" is None, "[1]" is a list, an object is a dict.
JsonMalformed == [json |-> "malformed"]

JsonNull == [json |-> "null"]

JsonArray == [json |-> "array"]

JsonObject(d) == [json |-> "object", value |-> d]

JsonLoads(a) ==
    IF a.json = "malformed"
    THEN [raised |-> TRUE, desc |-> "Expecting value: line 1 column 1 (char 0)"]
    ELSE [raised |-> FALSE,
          value |-> IF a.json = "null" THEN None
                    ELSE IF a.json = "array" THEN L(<<N(1)>>)
                    ELSE a.value]

\* One tool invocation of a model response.
ToolCall(name, arguments) == [name |-> name, arguments |-> arguments]

\* What client.chat.completions.create does: raise, or return a message with
\* a content and a (possibly empty) list of tool invocations.
LlmRaise(desc) == [kind |-> "raise", desc |-> desc]

LlmMessage(content, tool_calls) ==
    [kind |-> "message", content |-> content, tool_calls |-> tool_calls]

\* The Resolver's outcome: the dict returned, the number of client calls
\* made and the message sequence sent to the model.
Resolved(value, client_calls, messages) ==
    [value |-> value, client_calls |-> client_calls, messages |-> messages]

\* Variant: malformed argument JSON is reported under a type of its own.
ProcessCommandParseError(user_input, context, answers) ==
    LET messages == BuildMessages(user_input, context)
        llm == answers[1]
    IN  IF llm.kind = "raise"
        THEN Resolved([type |-> S("error"), error |-> S(llm.desc)], 1, messages)
        ELSE IF llm.tool_calls # <<>>
        THEN LET function_args == JsonLoads(llm.tool_calls[1].arguments)
             IN  IF function_args.raised
                 THEN Resolved([type |-> S("parse_error"),
                                error |-> S(function_args.desc)], 1, messages)
                 ELSE Resolved([type |-> S("tool_call"),
                                tool |-> llm.tool_calls[1].name,
                                arguments |-> function_args.value,
                                raw_response |-> llm.content],
                               1, messages)
        ELSE Resolved([type |-> S("direct_response"), content |-> llm.content],
                      1, messages)

\* Variant: a client exception is retried once.
ProcessCommandRetry(user_input, context, answers) ==
    LET messages == BuildMessages(user_input, context)
        failed == answers[1].kind = "raise"
        llm == IF failed THEN answers[2] ELSE answers[1]
        calls == IF failed THEN 2 ELSE 1
    IN  IF llm.kind = "raise"
        THEN Resolved([type |-> S("error"), error |-> S(llm.desc)], calls, messages)
        ELSE IF llm.tool_calls # <<>>
        THEN LET function_args == JsonLoads(llm.tool_calls[1].arguments)
             IN  IF function_args.raised
                 THEN Resolved([type |-> S("error"), error |-> S(function_args.desc)],
                               calls, messages)
                 ELSE Resolved([type |-> S("tool_call"),
                                tool |-> llm.tool_calls[1].name,
                                arguments |-> function_args.value,
                                raw_response |-> llm.content],
                               calls, messages)
        ELSE Resolved([type |-> S("direct_response"), content |-> llm.content],
                      calls, messages)

\* llm_service.py:102-162.  `answers` is what the client would answer to a
\* first, a second, ... call; the code makes one call and reads answers[1].
ProcessCommand(user_input, context, answers) ==
    LET messages == BuildMessages(user_input, context)
        llm == answers[1]
    IN  IF llm.kind = "raise"
        THEN Resolved([type |-> S("error"), error |-> S(llm.desc)], 1, messages)
        ELSE IF llm.tool_calls # <<>>
        THEN LET tool_call == llm.tool_calls[1]
                 function_args == JsonLoads(tool_call.arguments)
             IN  IF function_args.raised
                 THEN Resolved([type |-> S("error"), error |-> S(function_args.desc)],
                               1, messages)
                 ELSE Resolved([type |-> S("tool_call"),
                                tool |-> tool_call.name,
                                arguments |-> function_args.value,
                                raw_response |-> llm.content],
                               1, messages)
        ELSE Resolved([type |-> S("direct_response"), content |-> llm.content],
                      1, messages)

\* ------------------------------------------- media integration (Spotify)

\* The authenticated spotipy client held in SpotifyService.sp.
Client == [client |-> "spotipy.Spotify"]

\* Outcomes of self.sp.devices(): an exception, or a list of devices.
DevRaise == [raised |-> TRUE]

DevList(q) == [raised |-> FALSE, devices |-> q]

Device(id, active) == [id |-> S(id), is_active |-> active]

\* The ways a call of the client raises: a SpotifyException with HTTP status
\* 404, 403 or 500, or another exception.
RaiseOutcomes == {"404", "403", "500", "exc"}

\* str(e) of the exceptions the client raises, by outcome.
ErrText(outcome) ==
    IF outcome = "500" THEN "http status: 500, code:-1 - Server error, reason: None"
    ELSE "Connection reset by peer"

\* Index of the first active device: next((d for d in ... if d['is_active']), None)
RECURSIVE FirstActive(_, _)
FirstActive(devices, i) ==
    IF i > Len(devices) THEN 0
    ELSE IF devices[i].is_active THEN i
    ELSE FirstActive(devices, i + 1)

\* spotify_service.py:87-105.  `self` is the service record [sp, device_id,
\* instance]; the result is the service after the call.
GetDeviceFirstOnly(self, dev) ==
    IF dev.raised THEN self
    ELSE IF dev.devices # <<>>
    THEN [self EXCEPT !.device_id = dev.devices[1].id]
    ELSE [self EXCEPT !.device_id = None]

GetDevice(self, dev) ==
    IF dev.raised THEN self
    ELSE IF dev.devices # <<>>
    THEN LET a == FirstActive(dev.devices, 1)
         IN  IF a # 0
             THEN [self EXCEPT !.device_id = dev.devices[a].id]
             ELSE [self EXCEPT !.device_id = dev.devices[1].id]
    ELSE [self EXCEPT !.device_id = None]

\* Outcomes of SpotifyService._initialize_spotify's checks, in code order.
InitOutcomes ==
    {"missing_credentials", "no_cache_file", "no_cached_token",
     "refresh_failed", "current_user_failed", "ok"}

\* spotify_service.py:15-85: the constructor.  env.init is the outcome of the
\* credential / cache / token / connection checks, env.devices the answer of
\* the device query.  The result carries the new instance and the
\* integration calls made.
NewSpotifyService(instance, env) ==
    LET fresh == [sp |-> None, device_id |-> None, instance |-> instance]
    IN  IF env.init = "ok"
        THEN [self |-> GetDevice([fresh EXCEPT !.sp = Client], env.devices),
              calls |-> <<"current_user", "devices">>]
        ELSE IF env.init = "current_user_failed"
        THEN [self |-> fresh, calls |-> <<"current_user">>]
        ELSE [self |-> fresh, calls |-> <<>>]

NotInitialized ==
    [status |-> S("error"),
     message |-> S("Spotify not initialized. Please run auth_spotify_fixed.py")]

\* The result of one service method: the dict returned, the service after
\* the call and the integration calls made, in order.
Ret(value, self, calls) == [value |-> value, self |-> self, calls |-> calls]

\* Variant: every failure of a call is reported alike, by its text.
ApiErrorByText(o, msg404) ==
    [status |-> S("error"), message |-> S("Spotify error: " \o ErrText(o))]

\* spotify_service.py:180-190 and 217-226: the except clauses, for a call
\* that raised with outcome `o`; msg404 is the method's own 404 text.
ApiError(o, msg404) ==
    IF o = "404" THEN [status |-> S("error"), message |-> S(msg404)]
    ELSE IF o = "403"
    THEN [status |-> S("error"),
          message |-> S("Premium account required for playback control.")]
    ELSE IF o = "500"
    THEN [status |-> S("error"), message |-> S("Spotify error: " \o ErrText(o))]
    ELSE [status |-> S("error"), message |-> S(ErrText(o))]

\* spotify_service.py:192-226
ControlPlayback(self, action, env) ==
    IF ~Truthy(self.sp) THEN Ret(NotInitialized, self, <<>>)
    ELSE LET call == IF action = S("play") THEN "start_playback"
                     ELSE IF action = S("pause") THEN "pause_playback"
                     ELSE IF action = S("skip") \/ action = S("next") THEN "next_track"
                     ELSE IF action = S("previous") THEN "previous_track"
                     ELSE "none"
             done == IF action = S("play") THEN "Playback resumed"
                     ELSE IF action = S("pause") THEN "Playback paused"
                     ELSE IF action = S("skip") \/ action = S("next")
                     THEN "Skipped to next track"
                     ELSE "Playing previous track"
         IN  IF call = "none"
             THEN Ret([status |-> S("error"),
                       message |-> S("Unknown action: " \o Fmt(action))], self, <<>>)
             ELSE IF env.play = "ok"
             THEN Ret([status |-> S("success"), message |-> S(done)], self, <<call>>)
             ELSE Ret(ApiError(env.play, "No active device found. Please open Spotify."),
                      self, <<call>>)

\* spotify_service.py:228-251.  env.current is the outcome of
\* current_playback: "none" (nothing returned), "noitem" (no item in it),
\* "playing" / "paused" (an item, is_playing true / false), or it raised:
\* "500" a SpotifyException, "exc" another exception; both are reported by
\* their text.
GetCurrentTrack(self, env) ==
    IF ~Truthy(self.sp) THEN Ret(NotInitialized, self, <<>>)
    ELSE IF env.current \in {"exc", "500"}
    THEN Ret([status |-> S("error"), message |-> S(ErrText(env.current))],
             self, <<"current_playback">>)
    ELSE IF env.current \in {"playing", "paused"}
    THEN Ret([status |-> S("success"),
              is_playing |-> B(env.current = "playing"),
              track |-> S("Imagine"),
              artist |-> S("John Lennon"),
              album |-> S("Imagine"),
              progress |-> N(1000),
              duration |-> N(183000)],
             self, <<"current_playback">>)
    ELSE Ret([status |-> S("success"), message |-> S("No track currently playing")],
             self, <<"current_playback">>)

\* Variant: the message names only the query.
NothingFoundQueryOnly(search_type, query) ==
    [status |-> S("error"),
     message |-> S("No results found for '" \o Fmt(query) \o "'")]

\* spotify_service.py:178: the return reached when no branch played; it names
\* the type as the caller gave it, not the type searched.
NothingFound(search_type, query) ==
    [status |-> S("error"),
     message |-> S("No " \o Fmt(search_type) \o " found for '" \o Fmt(query) \o "'")]

\* spotify_service.py:107-190.  env.lookup is the answer to the device query
\* made here, env.search the outcome of the search call ("hit": at least one
\* item of the requested type, "miss": none, otherwise it raised: "404",
\* "403", "500" a SpotifyException of that status, "exc" another exception),
\* env.top that of artist_top_tracks, env.play that of start_playback.
SearchAndPlay(self, query, search_type, env) ==
    IF ~Truthy(self.sp) THEN Ret(NotInitialized, self, <<>>)
    ELSE
      LET looked == ~Truthy(self.device_id)
          self1 == IF looked THEN GetDevice(self, env.lookup) ELSE self
          pre == IF looked THEN <<"devices">> ELSE <<>>
          spotify_type ==
              IF search_type \in {S("track"), S("artist"), S("playlist"), S("album")}
              THEN search_type.str ELSE "track"
          msg404 == "Device not found. Please open Spotify and start playing something first."
          nothing == NothingFound(search_type, query)
          played == IF spotify_type = "track"
                    THEN [status |-> S("success"),
                          message |-> S("Playing: Imagine by John Lennon"),
                          track |-> S("Imagine"),
                          artist |-> S("John Lennon")]
                    ELSE IF spotify_type = "artist"
                    THEN [status |-> S("success"),
                          message |-> S("Playing top tracks by John Lennon"),
                          artist |-> S("John Lennon")]
                    ELSE IF spotify_type = "playlist"
                    THEN [status |-> S("success"),
                          message |-> S("Playing playlist: Imagine Mix"),
                          playlist |-> S("Imagine Mix")]
                    ELSE [status |-> S("success"),
                          message |-> S("Playing album: Imagine by John Lennon"),
                          album |-> S("Imagine"),
                          artist |-> S("John Lennon")]
          start(calls) ==
              IF env.play = "ok"
              THEN Ret(played, self1, calls \o <<"start_playback">>)
              ELSE Ret(ApiError(env.play, msg404), self1, calls \o <<"start_playback">>)
      IN  IF looked /\ ~Truthy(self1.device_id)
          THEN Ret([status |-> S("error"),
                    message |-> S("No Spotify device available. Please open Spotify.")],
                   self1, pre)
          ELSE IF env.search \in RaiseOutcomes
          THEN Ret(ApiError(env.search, msg404), self1, pre \o <<"search">>)
          ELSE IF env.search = "miss"
          THEN Ret(nothing, self1, pre \o <<"search">>)
          ELSE IF spotify_type = "artist"
          THEN IF env.top \in RaiseOutcomes
               THEN Ret(ApiError(env.top, msg404), self1,
                        pre \o <<"search", "artist_top_tracks">>)
               ELSE IF env.top = "hit"
               THEN start(pre \o <<"search", "artist_top_tracks">>)
               ELSE Ret(nothing, self1, pre \o <<"search", "artist_top_tracks">>)
          ELSE start(pre \o <<"search">>)

\* spotify_service.py:253-261: the module-level singleton.  `svc` is
\* _spotify_service (None before the first use); the result carries the
\* singleton after the call, the integration calls the constructor made and
\* whether an instance was constructed.
GetSpotifyServiceAlwaysNew(svc, env) ==
    LET made == NewSpotifyService(IF svc = None THEN 1 ELSE svc.instance + 1, env)
    IN  [svc |-> made.self, calls |-> made.calls, constructed |-> TRUE]

\* Variant: an instance without a client is constructed again on the next use.
GetSpotifyServiceRetryInit(svc, env) ==
    IF svc = None \/ ~Truthy(svc.sp)
    THEN LET made == NewSpotifyService(1, env)
         IN  [svc |-> made.self, calls |-> made.calls, constructed |-> TRUE]
    ELSE [svc |-> svc, calls |-> <<>>, constructed |-> FALSE]

GetSpotifyService(svc, env) ==
    IF svc = None
    THEN LET made == NewSpotifyService(1, env)
         IN  [svc |-> made.self, calls |-> made.calls, constructed |-> TRUE]
    ELSE [svc |-> svc, calls |-> <<>>, constructed |-> FALSE]

\* ------------------------------------------------------ Action Dispatcher

\* The outcome of one dispatch: raised (an exception left execute_tool_call),
\* the dict returned, the singleton after the call, the integration calls
\* made and whether the singleton was constructed.
Dispatched(value, svc, calls, constructed) ==
    [raised |-> FALSE, value |-> value, svc |-> svc, calls |-> calls,
     constructed |-> constructed]

DispatchRaised(svc, calls, constructed) ==
    [raised |-> TRUE, value |-> None, svc |-> svc, calls |-> calls,
     constructed |-> constructed]

\* Variant: the final return carries the text under "error", no status.
UnknownToolNoStatus(tool_name) ==
    [error |-> S("Unknown tool: " \o Fmt(tool_name))]

\* Variant: the message does not name the tool.
UnknownToolUnnamed(tool_name) ==
    [status |-> S("error"), message |-> S("Unknown tool")]

\* main.py:54
UnknownTool(tool_name) ==
    [status |-> S("error"), message |-> S("Unknown tool: " \o Fmt(tool_name))]

\* Variant: an empty response is replaced by a default text
\* (arguments.get("response") or "...").
GeneralQueryOrDefault(arguments) ==
    [status |-> S("success"),
     message |-> IF Truthy(Get(arguments, "response", S("")))
                 THEN arguments["response"] ELSE S("I have no answer.")]

\* main.py:52
GeneralQuery(arguments) ==
    [status |-> S("success"), message |-> Get(arguments, "response", S(""))]

\* Variant: the singleton is fetched before the branch on the tool name.
DispatchGeneralQueryViaService(arguments, svc, env) ==
    LET got == GetSpotifyService(svc, env)
    IN  IF ~IsDict(arguments)
        THEN DispatchRaised(got.svc, got.calls, got.constructed)
        ELSE Dispatched(GeneralQuery(arguments), got.svc, got.calls, got.constructed)

\* main.py:51-52: the general_query branch; it touches no integration.
DispatchGeneralQuery(arguments, svc, env) ==
    IF ~IsDict(arguments)
    THEN DispatchRaised(svc, <<>>, FALSE)
    ELSE Dispatched(GeneralQuery(arguments), svc, <<>>, FALSE)

\* Variant: the calendar stub answers only the actions the tool declares and
\* reports anything else as an error.
ManageCalendarChecked(arguments) ==
    IF IsDict(arguments)
       /\ Get(arguments, "action", None) \in {S("create"), S("update"), S("delete"), S("query"), S("list")}
    THEN [status |-> S("info"), message |-> S("Calendar integration coming soon!")]
    ELSE [status |-> S("error"), message |-> S("Invalid calendar request")]

\* main.py:47-49: the manage_calendar branch; it never reads its arguments.
ManageCalendar(arguments) ==
    [status |-> S("info"), message |-> S("Calendar integration coming soon!")]

\* Variant: every action that is neither search nor current is handed to
\* control_playback, which reports an action it does not know.
ControlSpotifyPassAction(tool_name, arguments, spotify, env) ==
    LET action == Get(arguments, "action", None)
    IN  IF action = S("search")
        THEN SearchAndPlay(spotify,
                           Get(arguments, "query", S("")),
                           Get(arguments, "type", S("track")),
                           env)
        ELSE IF action = S("current")
        THEN GetCurrentTrack(spotify, env)
        ELSE ControlPlayback(spotify, action, env)

\* main.py:36-45 and 54: the chain on the action.  An action that matches no
\* arm leaves the control_spotify branch and reaches the final return.
ControlSpotify(tool_name, arguments, spotify, env) ==
    LET action == Get(arguments, "action", None)
    IN  IF action \in {S("play"), S("pause"), S("skip"), S("previous")}
        THEN ControlPlayback(spotify, action, env)
        ELSE IF action = S("search")
        THEN SearchAndPlay(spotify,
                           Get(arguments, "query", S("")),
                           Get(arguments, "type", S("track")),
                           env)
        ELSE IF action = S("current")
        THEN GetCurrentTrack(spotify, env)
        ELSE Ret(UnknownTool(tool_name), spotify, <<>>)

\* main.py:31-54.  arguments.get on a value that is not a dict raises
\* AttributeError.
ExecuteToolCall(tool_name, arguments, svc, env) ==
    IF tool_name = S("control_spotify")
    THEN LET got == GetSpotifyService(svc, env)
             spotify == got.svc
         IN  IF ~IsDict(arguments)
             THEN DispatchRaised(got.svc, got.calls, got.constructed)
             ELSE LET r == ControlSpotify(tool_name, arguments, spotify, env)
                  IN  Dispatched(r.value, r.self, got.calls \o r.calls, got.constructed)
    ELSE IF tool_name = S("manage_calendar")
    THEN Dispatched(ManageCalendar(arguments), svc, <<>>, FALSE)
    ELSE IF tool_name = S("general_query")
    THEN DispatchGeneralQuery(arguments, svc, env)
    ELSE Dispatched(UnknownTool(tool_name), svc, <<>>, FALSE)

\* -------------------------------------------------------- Request Gateway

\* The outcome of the pipeline both transports run (main.py:79-90 and
\* 107-115): raised (an exception left it), the result dict, the singleton
\* after it, and what was done: client calls, dispatcher calls, and the
\* dispatch itself (None when the dispatcher was not invoked).
Ran(raised, result, svc, resolved, dispatches, dispatch) ==
    [raised |-> raised, result |-> result, svc |-> svc,
     client_calls |-> resolved.client_calls, messages |-> resolved.messages,
     dispatches |-> dispatches, dispatch |-> dispatch]

\* What one dispatcher call did, for the record of the run, with the answers
\* the integration had for it.
DispatchRecord(tool_name, arguments, svc, env, d) ==
    [tool |-> tool_name, arguments |-> arguments, raised |-> d.raised,
     value |-> d.value, before |-> svc, after |-> d.svc, calls |-> d.calls,
     constructed |-> d.constructed, env |-> env]

\* Variant: every tool_call is executed, whatever its tool.
ShouldExecuteAnyTool(result) ==
    result["type"] = S("tool_call")

\* main.py:85 and 110: result["type"] == "tool_call" and result.get("tool")
ShouldExecute(result) ==
    result["type"] = S("tool_call") /\ Truthy(Get(result, "tool", None))

\* main.py:79-90 (single-shot) and 107-115 (persistent channel, context None)
RunPipeline(text, context, answers, svc, env) ==
    LET resolved == ProcessCommand(text, context, answers)
        result == resolved.value
    IN  IF ShouldExecute(result)
        THEN LET arguments == Get(result, "arguments", EmptyDict)
                 d == ExecuteToolCall(result["tool"], arguments, svc, env)
                 rec == DispatchRecord(result["tool"], arguments, svc, env, d)
             IN  IF d.raised
                 THEN Ran(TRUE, result, d.svc, resolved, 1, rec)
                 ELSE Ran(FALSE, SetItem(result, "execution_result", d.value),
                          d.svc, resolved, 1, rec)
        ELSE Ran(FALSE, result, svc, resolved, 0, None)

\* main.py:61-67
CommandResponseFields ==
    {"type", "tool", "arguments", "content", "error", "execution_result"}

\* main.py:92: CommandResponse(**result).  Keys the model does not declare
\* are ignored, undeclared fields default to None, and a value of the wrong
\* type (arguments that are neither a dict nor None) fails validation.
CommandResponse(result) ==
    IF Get(result, "arguments", None) # None /\ ~IsDict(result["arguments"])
    THEN [raised |-> TRUE, body |-> None]
    ELSE [raised |-> FALSE,
          body |-> [f \in CommandResponseFields |-> Get(result, f, None)]]

\* main.py:118: send_json(result) serialises the dict as it is.
WsPayload(result) == result

\* ------------------------------------------------------------------ inputs

\* Request texts.
Texts == {"play imagine", "what time is it"}

\* Caller-supplied contexts of the single-shot endpoint (context is Optional).
Contexts ==
    {None,
     L(<<>>),
     L(<<[role |-> S("user"), content |-> S("earlier")]>>),
     L(<<[role |-> S("user"), content |-> S("earlier")],
         [role |-> S("assistant"), content |-> S("Done.")]>>)}

\* Argument objects the model may produce for control_spotify.
SpotifyArguments ==
    {[action |-> S(a)] : a \in {"play", "pause", "skip", "previous", "current", "shuffle"}}
    \cup {EmptyDict,
          [action |-> S("search")],
          [action |-> S("search"), query |-> S("Imagine"), type |-> S("track")],
          [action |-> S("search"), query |-> S("Imagine"), type |-> S("artist")],
          [action |-> S("search"), query |-> S("Imagine"), type |-> S("song")]}

\* First tool invocations the model may return: the three registered tools
\* with well-formed argument objects, an unregistered name, an empty and a
\* null name, and argument strings that are not a JSON object.
FirstCalls ==
    {ToolCall(S("control_spotify"), JsonObject(a)) : a \in SpotifyArguments}
    \cup {ToolCall(S("manage_calendar"), JsonObject([action |-> S("create")])),
          ToolCall(S("manage_calendar"),
                   JsonObject([action |-> S("create"),
                               event_data |-> [title |-> S("Lunch")]])),
          ToolCall(S("manage_calendar"), JsonObject(EmptyDict)),
          ToolCall(S("manage_calendar"), JsonArray),
          ToolCall(S("general_query"), JsonObject([response |-> S("hello")])),
          ToolCall(S("general_query"), JsonObject([response |-> S("")])),
          ToolCall(S("general_query"), JsonNull),
          ToolCall(S("general_query"), JsonMalformed),
          ToolCall(S("control_spotify"), JsonNull),
          ToolCall(S("frobnicate"), JsonObject(EmptyDict)),
          ToolCall(S("frobnicate"), JsonObject([action |-> S("play")])),
          ToolCall(S("Control_Spotify"), JsonNull),
          ToolCall(S(""), JsonObject(EmptyDict)),
          ToolCall(None, JsonObject(EmptyDict))}

\* Outcomes of one chat-completion call.
LlmOutcomes ==
    {LlmRaise("Request timed out.")}
    \cup {LlmMessage(S("It is noon."), <<>>), LlmMessage(None, <<>>)}
    \cup {LlmMessage(None, <<c>>) : c \in FirstCalls}
    \cup {LlmMessage(S("Sure."),
                     <<ToolCall(S("general_query"), JsonObject([response |-> S("hello")])),
                       ToolCall(S("control_spotify"), JsonObject([action |-> S("pause")]))>>)}

\* What the client would answer to a second call, had the code retried.
RetryAnswer == LlmMessage(S("It is noon."), <<>>)

\* Answers of the device query.
DeviceOutcomes ==
    {DevRaise,
     DevList(<<>>),
     DevList(<<Device("d1", FALSE), Device("d2", FALSE)>>),
     DevList(<<Device("d1", FALSE), Device("d2", TRUE)>>)}

\* Outcomes of a playback call: done, or an HTTP 404 / 403 / 500 from the
\* service (SpotifyException), or any other exception.
PlayOutcomes == {"ok", "404", "403", "500", "exc"}

\* Outcomes of the search call: items found, none found, or it raised.
SearchOutcomes == {"hit", "miss"} \cup RaiseOutcomes

\* Outcomes of artist_top_tracks: tracks, none, or it raised.
TopOutcomes == {"hit", "miss"} \cup RaiseOutcomes

CurrentOutcomes == {"none", "noitem", "playing", "paused", "500", "exc"}

\* An answer of the integration to each call one dispatch may make: the
\* constructor's checks (init) and device query (devices), the device query
\* of search_and_play (lookup), search, artist_top_tracks, the playback call
\* and current_playback.  One dispatch can make both device queries: a search
\* that constructs the singleton and gets no device from the first.
Env(init, devices, lookup, search, top, play, current) ==
    [init |-> init, devices |-> devices, lookup |-> lookup, search |-> search,
     top |-> top, play |-> play, current |-> current]

\* The answers to the calls a dispatch with arguments `args` makes on a
\* service whose client is set, cached device `device_id`; `devs` are the
\* possible answers of search_and_play's device query.  Answers to calls
\* the dispatch does not reach are fixed, except that a search not reached
\* for want of a device may be one with a match or one without.
EnvsOnClient(args, device_id, devs) ==
    LET action == Get(args, "action", None)
        idle == DevList(<<>>)
        artist == Get(args, "type", None) = S("artist")
        searches(dev) ==
            {Env("ok", idle, dev, o, "hit", "ok", "none") : o \in SearchOutcomes \ {"hit"}}
            \cup {Env("ok", idle, dev, "hit", "hit", p, "none") : p \in PlayOutcomes}
            \cup (IF artist
                  THEN {Env("ok", idle, dev, "hit", t, "ok", "none") :
                          t \in TopOutcomes \ {"hit"}}
                  ELSE {})
    IN  IF action \in {S("play"), S("pause"), S("skip"), S("previous")}
        THEN {Env("ok", idle, idle, "hit", "hit", p, "none") : p \in PlayOutcomes}
        ELSE IF action = S("current")
        THEN {Env("ok", idle, idle, "hit", "hit", "ok", c) : c \in CurrentOutcomes}
        ELSE IF action = S("search")
        THEN IF Truthy(device_id)
             THEN searches(idle)
             ELSE UNION {IF dev.raised \/ dev.devices = <<>>
                         THEN {Env("ok", idle, dev, "hit", "hit", "ok", "none"),
                               Env("ok", idle, dev, "miss", "hit", "ok", "none")}
                         ELSE searches(dev) : dev \in devs}
        ELSE {Env("ok", idle, idle, "hit", "hit", "ok", "none")}

\* The environment of a dispatch that makes no integration call.
IdleEnv == Env("ok", DevList(<<>>), DevList(<<>>), "hit", "hit", "ok", "none")

\* The answers of the integration to the calls the dispatch of `result` makes
\* from singleton `svc`.
EnvsFor(result, svc) ==
    LET idle == IdleEnv
        arguments == Get(result, "arguments", EmptyDict)
    IN  IF ~(ShouldExecute(result) /\ result["tool"] = S("control_spotify"))
        THEN {idle}
        ELSE IF svc = None
        THEN {[idle EXCEPT !.init = i] : i \in InitOutcomes \ {"ok"}}
             \cup (IF IsDict(arguments)
                   THEN UNION {{[e EXCEPT !.devices = dev] :
                                  e \in EnvsOnClient(arguments,
                                          GetDevice([sp |-> Client, device_id |-> None,
                                                     instance |-> 1], dev).device_id,
                                          DeviceOutcomes)} : dev \in DeviceOutcomes}
                   ELSE {[idle EXCEPT !.devices = dev] : dev \in DeviceOutcomes})
        ELSE IF Truthy(svc.sp) /\ IsDict(arguments)
        THEN EnvsOnClient(arguments, svc.device_id, DeviceOutcomes)
        ELSE {idle}

\* ------------------------------------------------------------------- state

VARIABLES
    svc,      \* _spotify_service: None, or the SpotifyService instance
    out,      \* the run whose response is on its way to the caller, or NoRun
    wsPc,     \* the /ws handler: "connecting", "receiving", "sending", "closed"
    wsIn,     \* texts received on the connection, in order
    wsOut,    \* for each response sent on the connection, the text it answers
    tasks     \* concurrent handlers: for each, its position and what its
              \* dispatches saw of the singleton

vars == <<svc, out, wsPc, wsIn, wsOut, tasks>>

NoRun == [via |-> "none"]

\* The record of one run: the transport, the request text and context, the
\* client's answer, whether an exception left the handler, the response (None if
\* none), and the run: the result dict, the client and dispatcher calls and
\* the dispatch.
Out(via, text, context, answer, run, raised, response) ==
    [via |-> via, text |-> text, context |-> context, answer |-> answer,
     raised |-> raised, response |-> response, result |-> run.result,
     client_calls |-> run.client_calls, messages |-> run.messages,
     dispatches |-> run.dispatches, dispatch |-> run.dispatch]

\* Concurrent handlers on the one event loop: two single-shot requests and
\* one persistent channel.
Posts == {"post1", "post2"}

Channels == {"ws1"}

Tasks == Posts \cup Channels

\* A handler that has not started: a request waiting to be handled, a
\* connection waiting to be accepted.  handled counts the pipeline runs,
\* dispatches the control_spotify dispatches among them, unset those that
\* found _spotify_service None, constructions those in which SpotifyService()
\* ran; instance is the instance the latest dispatch got (0: none yet).
TaskStart(t) ==
    [pc |-> IF t \in Posts THEN "pending" ELSE "connecting",
     handled |-> 0, dispatches |-> 0, unset |-> 0, constructions |-> 0,
     instance |-> 0]

Init ==
    /\ svc = None
    /\ out = NoRun
    /\ wsPc = "connecting"
    /\ wsIn = <<>>
    /\ wsOut = <<>>
    /\ tasks = [t \in Tasks |-> TaskStart(t)]

\* main.py:73-92: the handler of one single-shot request, start to return
\* (it has no suspension point: the resolver and the dispatcher never
\* yield).  One response is followed at a time: the handler runs once the
\* previous response has left.
HttpProcess ==
    /\ out = NoRun
    /\ \E text \in Texts, context \in Contexts, llm \in LlmOutcomes :
         LET resolved == ProcessCommand(text, context, <<llm, RetryAnswer>>)
         IN  \E env \in EnvsFor(resolved.value, svc) :
               LET run == RunPipeline(text, context, <<llm, RetryAnswer>>, svc, env)
                   response == CommandResponse(run.result)
               IN  /\ svc' = run.svc
                   /\ out' = IF run.raised \/ response.raised
                             THEN Out("http", text, context, llm, run, TRUE, None)
                             ELSE Out("http", text, context, llm, run, FALSE, response.body)
                   /\ UNCHANGED <<wsPc, wsIn, wsOut, tasks>>

\* The framework delivers what the handler returned (the response, or a 500
\* for an exception that left it).
HttpRespond ==
    /\ out.via = "http"
    /\ out' = NoRun
    /\ UNCHANGED <<svc, wsPc, wsIn, wsOut, tasks>>

\* main.py:97: the connection is accepted.
WsAccept ==
    /\ wsPc = "connecting"
    /\ out = NoRun
    /\ wsPc' = "receiving"
    /\ UNCHANGED <<svc, out, wsIn, wsOut, tasks>>

\* main.py:103-118: a text arrives, the pipeline runs and the result is
\* handed to send_json; an exception in the pipeline leaves the loop.  The
\* code between receive_text returning and send_json being awaited has no
\* suspension point, so it is one step.
WsReceive ==
    /\ wsPc = "receiving"
    /\ out = NoRun
    /\ Len(wsIn) < MaxMsgs
    /\ \E text \in Texts, llm \in LlmOutcomes :
         LET resolved == ProcessCommand(text, None, <<llm, RetryAnswer>>)
         IN  \E env \in EnvsFor(resolved.value, svc) :
               LET run == RunPipeline(text, None, <<llm, RetryAnswer>>, svc, env)
               IN  /\ svc' = run.svc
                   /\ wsIn' = Append(wsIn, text)
                   /\ out' = IF run.raised
                             THEN Out("ws", text, None, llm, run, TRUE, None)
                             ELSE Out("ws", text, None, llm, run, FALSE, WsPayload(run.result))
                   /\ wsPc' = IF run.raised THEN "failed" ELSE "sending"
                   /\ UNCHANGED <<wsOut, tasks>>

\* Variant: the response is sent twice.
WsSentTwice ==
    /\ wsPc = "sending"
    /\ wsOut' = wsOut \o <<out.text, out.text>>
    /\ out' = NoRun
    /\ wsPc' = "receiving"
    /\ UNCHANGED <<svc, wsIn, tasks>>

\* main.py:118: send_json completes; the loop returns to receive_text.
WsSent ==
    /\ wsPc = "sending"
    /\ wsOut' = Append(wsOut, out.text)
    /\ out' = NoRun
    /\ wsPc' = "receiving"
    /\ UNCHANGED <<svc, wsIn, tasks>>

\* main.py:118-123: send_json raises (the peer is gone); the loop ends.
WsSendFails ==
    /\ wsPc = "sending"
    /\ out' = NoRun
    /\ wsPc' = "closed"
    /\ UNCHANGED <<svc, wsIn, wsOut, tasks>>

\* Variant: the exception is caught inside the iteration, an error response
\* is sent for the message and the loop goes on.
WsFailedAnswered ==
    /\ wsPc = "failed"
    /\ wsOut' = Append(wsOut, out.text)
    /\ out' = NoRun
    /\ wsPc' = "receiving"
    /\ UNCHANGED <<svc, wsIn, tasks>>

\* main.py:120-123: the exception that left the pipeline is logged and the
\* handler ends without a response.
WsFailed ==
    /\ wsPc = "failed"
    /\ out' = NoRun
    /\ wsPc' = "closed"
    /\ UNCHANGED <<svc, wsIn, wsOut, tasks>>

\* main.py:103 and 120-123: receive_text raises (disconnect); the loop ends.
WsDisconnect ==
    /\ wsPc = "receiving"
    /\ out = NoRun
    /\ wsPc' = "closed"
    /\ UNCHANGED <<svc, out, wsIn, wsOut, tasks>>

Next ==
    \/ HttpProcess
    \/ HttpRespond
    \/ WsAccept
    \/ WsReceive
    \/ WsSent
    \/ WsSendFails
    \/ WsFailed
    \/ WsDisconnect

Spec == Init /\ [][Next]_vars

\* ------------------------------------------------- concurrent handlers

\* What the model answers to the requests of the concurrent handlers: a
\* failure, a question answered by general_query, media actions.
ConcurrentAnswers ==
    {LlmRaise("Request timed out."),
     LlmMessage(None, <<ToolCall(S("general_query"), JsonObject([response |-> S("hello")]))>>),
     LlmMessage(None, <<ToolCall(S("control_spotify"), JsonNull)>>)}
    \cup {LlmMessage(None, <<ToolCall(S("control_spotify"), JsonObject([action |-> S(a)]))>>) :
            a \in {"pause", "current", "shuffle"}}

\* The record of handler `rec` after a pipeline run that left it at `pc`.
Observed(rec, run, pc) ==
    LET d == run.dispatch
        used == d # None /\ d.tool = S("control_spotify")
    IN  [pc |-> pc,
         handled |-> rec.handled + 1,
         dispatches |-> rec.dispatches + (IF used THEN 1 ELSE 0),
         unset |-> rec.unset + (IF used /\ d.before = None THEN 1 ELSE 0),
         constructions |-> rec.constructions + (IF used /\ d.constructed THEN 1 ELSE 0),
         instance |-> IF used THEN d.after.instance ELSE rec.instance]

\* main.py:73-92: one single-shot request is handled.  The awaits at lines 79
\* and 86 are on coroutines that never suspend (the client call and the
\* integration calls are synchronous), so the handler is one step of the
\* event loop.
HandlePost(t) ==
    /\ t \in Posts
    /\ tasks[t].pc = "pending"
    /\ \E llm \in ConcurrentAnswers :
         LET resolved == ProcessCommand("play imagine", None, <<llm, RetryAnswer>>)
         IN  \E env \in EnvsFor(resolved.value, svc) :
               LET run == RunPipeline("play imagine", None, <<llm, RetryAnswer>>, svc, env)
               IN  /\ svc' = run.svc
                   /\ tasks' = [tasks EXCEPT ![t] = Observed(@, run, "responded")]
    /\ UNCHANGED <<out, wsPc, wsIn, wsOut>>

\* main.py:97: accept is awaited; other handlers may run before it returns.
ChannelAccept(t) ==
    /\ t \in Channels
    /\ tasks[t].pc = "connecting"
    /\ tasks' = [tasks EXCEPT ![t].pc = "receiving"]
    /\ UNCHANGED <<svc, out, wsPc, wsIn, wsOut>>

\* main.py:103-118: receive_text returns a text and the pipeline runs up to
\* the await of send_json, in one step of the event loop; an exception in
\* the pipeline ends the handler (lines 120-123).
ChannelReceive(t) ==
    /\ t \in Channels
    /\ tasks[t].pc = "receiving"
    /\ tasks[t].handled < MaxMsgs
    /\ \E llm \in ConcurrentAnswers :
         LET resolved == ProcessCommand("play imagine", None, <<llm, RetryAnswer>>)
         IN  \E env \in EnvsFor(resolved.value, svc) :
               LET run == RunPipeline("play imagine", None, <<llm, RetryAnswer>>, svc, env)
               IN  /\ svc' = run.svc
                   /\ tasks' = [tasks EXCEPT ![t] =
                                  Observed(@, run, IF run.raised THEN "closed" ELSE "sending")]
    /\ UNCHANGED <<out, wsPc, wsIn, wsOut>>

\* main.py:118: send_json completes and the loop awaits receive_text again.
ChannelSent(t) ==
    /\ t \in Channels
    /\ tasks[t].pc = "sending"
    /\ tasks' = [tasks EXCEPT ![t].pc = "receiving"]
    /\ UNCHANGED <<svc, out, wsPc, wsIn, wsOut>>

\* main.py:103, 118 and 120-123: receive_text or send_json raises; the
\* handler ends.
ChannelClose(t) ==
    /\ t \in Channels
    /\ tasks[t].pc \in {"receiving", "sending"}
    /\ tasks' = [tasks EXCEPT ![t].pc = "closed"]
    /\ UNCHANGED <<svc, out, wsPc, wsIn, wsOut>>

\* The event loop runs one ready handler up to its next suspension point.
ConcurrentNext ==
    \E t \in Tasks :
        \/ HandlePost(t)
        \/ ChannelAccept(t)
        \/ ChannelReceive(t)
        \/ ChannelSent(t)
        \/ ChannelClose(t)

ConcurrentSpec == Init /\ [][ConcurrentNext]_vars

\* ------------------------------------------------------------- properties

\* A handler has produced a response (none is produced when an exception
\* left the handler).
Responded == out.via \in {"http", "ws"} /\ ~out.raised

\* The response's field f, None when the field is absent.
Field(f) == Get(out.response, f, None)

\* The dispatcher was invoked in the run and returned.
DispatchReturned ==
    /\ out.via \in {"http", "ws"}
    /\ out.dispatch # None
    /\ ~out.dispatch.raised

\* The model round trip of the run failed: the client raised, or the first
\* tool invocation's argument string is not JSON.
RoundTripFailed ==
    /\ out.via \in {"http", "ws"}
    /\ \/ out.answer.kind = "raise"
       \/ /\ out.answer.kind = "message"
          /\ out.answer.tool_calls # <<>>
          /\ JsonLoads(out.answer.tool_calls[1].arguments).raised

\* The description of that failure.
FailureDescription ==
    IF out.answer.kind = "raise" THEN out.answer.desc
    ELSE JsonLoads(out.answer.tool_calls[1].arguments).desc

\* C1: every response, of the single-shot endpoint and of each iteration of
\* the persistent channel, has a type that is one of tool_call,
\* direct_response, error, whatever the model call did.
C1_TypeIsOneOfThree ==
    Responded =>
        /\ "type" \in DOMAIN out.response
        /\ out.response["type"] \in {S("tool_call"), S("direct_response"), S("error")}

\* C1 witness: the persistent channel answers a model call whose tool
\* arguments were malformed JSON.
C1_Witness ==
    /\ Responded
    /\ out.via = "ws"
    /\ out.answer.kind = "message"
    /\ out.answer.tool_calls # <<>>
    /\ out.answer.tool_calls[1].arguments = JsonMalformed
    /\ out.response["type"] = S("error")

\* C2 as stated: execution_result is present if and only if the type is
\* tool_call and the tool name is not null.
C2_Original ==
    Responded =>
        (Field("execution_result") # None
           <=> (out.response["type"] = S("tool_call") /\ Field("tool") # None))

\* C2, amended: execution_result is present if and only if the type is
\* tool_call and the tool name is neither null nor the empty string.
C2_ExecutionResultIffTruthyTool ==
    Responded =>
        (Field("execution_result") # None
           <=> (out.response["type"] = S("tool_call")
                /\ Field("tool") # None /\ Field("tool") # S("")))

\* C2 witness: a tool_call response whose tool name is null carries no
\* execution_result.
C2_Witness ==
    /\ Responded
    /\ out.response["type"] = S("tool_call")
    /\ Field("tool") = None
    /\ Field("execution_result") = None

\* C3 as stated: every tool_call response carries an execution_result whose
\* status is success, error or info.
C3_Original ==
    (Responded /\ out.response["type"] = S("tool_call")) =>
        /\ Field("execution_result") # None
        /\ Get(Field("execution_result"), "status", None)
             \in {S("success"), S("error"), S("info")}

\* C3, amended: every tool_call response whose tool name is neither null nor
\* empty carries an execution_result whose status is success, error or info.
C3_ToolCallHasStatus ==
    (Responded /\ out.response["type"] = S("tool_call")
       /\ Field("tool") # None /\ Field("tool") # S("")) =>
        /\ Field("execution_result") # None
        /\ Get(Field("execution_result"), "status", None)
             \in {S("success"), S("error"), S("info")}

\* C3 witness: control_spotify with an unrecognised action is answered with
\* an execution_result of status error.
C3_Witness ==
    /\ Responded
    /\ out.response["type"] = S("tool_call")
    /\ Field("tool") = S("control_spotify")
    /\ Field("arguments") = [action |-> S("shuffle")]
    /\ Field("execution_result")["status"] = S("error")

\* C4 as stated: no exception leaves the single-shot handler; it always
\* returns a response.
C4_NoExceptionLeavesProcessCommand ==
    out.via = "http" => ~out.raised

\* C5: on one connection the responses sent answer the messages received, in
\* order, one each; while the loop waits for a message every message received
\* has its response, and the response being sent answers the latest message.
C5_ResponsesInReceiveOrder ==
    /\ Len(wsOut) <= Len(wsIn)
    /\ Len(wsIn) <= Len(wsOut) + 1
    /\ \A k \in 1..Len(wsOut) : wsOut[k] = wsIn[k]
    /\ wsPc \in {"connecting", "receiving"} => wsOut = wsIn
    /\ wsPc = "sending" =>
         /\ out.via = "ws"
         /\ ~out.raised
         /\ wsIn = Append(wsOut, out.text)

\* C5 witness: two different messages were received and both were answered.
C5_Witness ==
    /\ wsPc = "receiving"
    /\ Len(wsOut) = 2
    /\ wsIn[1] # wsIn[2]

\* C6: a failed model round trip (client exception, or malformed JSON in the
\* first tool invocation's arguments) yields a response of type error that
\* carries the failure's description, after exactly one client call and no
\* dispatcher call.
C6_RoundTripFailureIsError ==
    RoundTripFailed =>
        /\ ~out.raised
        /\ out.response["type"] = S("error")
        /\ Field("error") = S(FailureDescription)
        /\ Field("execution_result") = None
        /\ out.client_calls = 1
        /\ out.dispatches = 0

\* C6 witness: the client raised on a single-shot request.
C6_Witness ==
    /\ RoundTripFailed
    /\ out.via = "http"
    /\ out.answer.kind = "raise"
    /\ Field("error") = S("Request timed out.")

\* C7 as stated: every result the dispatcher returns has a status and a
\* message.
C7_UniformEnvelope ==
    DispatchReturned => {"status", "message"} \subseteq DOMAIN out.dispatch.value

\* C8 as stated: the payload the persistent channel sends has only fields of
\* the CommandResponse model, with the values the single-shot endpoint
\* returns for the same result (an absent field counting as null).
C8_SameShapeOnBothTransports ==
    (Responded /\ out.via = "ws" /\ ~CommandResponse(out.result).raised) =>
        /\ DOMAIN out.response \subseteq CommandResponseFields
        /\ \A f \in CommandResponseFields :
             Field(f) = CommandResponse(out.result).body[f]

\* C9: general_query with arguments {response: X} returns exactly
\* {status: success, message: X}.
C9_GeneralQueryPassThrough ==
    (/\ out.via \in {"http", "ws"}
     /\ out.dispatch # None
     /\ out.dispatch.tool = S("general_query")
     /\ IsDict(out.dispatch.arguments)
     /\ "response" \in DOMAIN out.dispatch.arguments) =>
        /\ ~out.dispatch.raised
        /\ out.dispatch.value =
             [status |-> S("success"), message |-> out.dispatch.arguments["response"]]

\* C9 witness: general_query was dispatched with the empty response text.
C9_Witness ==
    /\ DispatchReturned
    /\ out.dispatch.tool = S("general_query")
    /\ out.dispatch.arguments = [response |-> S("")]
    /\ out.dispatch.value["message"] = S("")

\* C10: a general_query dispatch returns what the same dispatch returns in
\* the initial state, whatever dispatches came before it, and it neither
\* changes nor creates the media session (singleton, client, device id) and
\* makes no integration call.
C10_GeneralQueryStateless ==
    (DispatchReturned /\ out.dispatch.tool = S("general_query")) =>
        /\ out.dispatch.value =
             ExecuteToolCall(S("general_query"), out.dispatch.arguments,
                             None, IdleEnv).value
        /\ out.dispatch.after = out.dispatch.before
        /\ svc = out.dispatch.before
        /\ ~out.dispatch.constructed
        /\ out.dispatch.calls = <<>>

\* C10 witness: general_query was dispatched while the singleton existed
\* with a cached device id.
C10_Witness ==
    /\ DispatchReturned
    /\ out.dispatch.tool = S("general_query")
    /\ out.dispatch.before # None
    /\ out.dispatch.before.device_id = S("d2")

\* C11: a manage_calendar dispatch returns a result of status info whatever
\* its arguments are (any action, with or without event data, none at all),
\* makes no integration call and leaves the media session alone.
C11_CalendarAlwaysInfo ==
    (/\ out.via \in {"http", "ws"}
     /\ out.dispatch # None
     /\ out.dispatch.tool = S("manage_calendar")) =>
        /\ ~out.dispatch.raised
        /\ out.dispatch.value["status"] = S("info")
        /\ out.dispatch.calls = <<>>
        /\ ~out.dispatch.constructed
        /\ out.dispatch.after = out.dispatch.before

\* C11 witness: manage_calendar was dispatched with no action at all and
\* answered info.
C11_Witness ==
    /\ DispatchReturned
    /\ out.dispatch.tool = S("manage_calendar")
    /\ out.dispatch.arguments = EmptyDict
    /\ out.dispatch.value["status"] = S("info")

\* C12: a dispatch of a tool name other than control_spotify,
\* manage_calendar and general_query returns exactly {status: error,
\* message: "Unknown tool: <name>"}, whatever the arguments are, and makes
\* no integration call.
C12_UnknownToolNamed ==
    (/\ out.via \in {"http", "ws"}
     /\ out.dispatch # None
     /\ out.dispatch.tool \notin
          {S("control_spotify"), S("manage_calendar"), S("general_query")}) =>
        /\ ~out.dispatch.raised
        /\ out.dispatch.value =
             [status |-> S("error"),
              message |-> S("Unknown tool: " \o out.dispatch.tool.str)]
        /\ out.dispatch.calls = <<>>
        /\ out.dispatch.after = out.dispatch.before

\* C12 witness: the unregistered tool frobnicate was dispatched with an
\* action argument and answered "Unknown tool: frobnicate".
C12_Witness ==
    /\ DispatchReturned
    /\ out.dispatch.tool = S("frobnicate")
    /\ out.dispatch.arguments = [action |-> S("play")]
    /\ out.dispatch.value["message"] = S("Unknown tool: frobnicate")

\* A control_spotify search was dispatched on an initialised integration
\* whose catalogue has no entity matching the query.
SearchWithoutMatch ==
    /\ out.via \in {"http", "ws"}
    /\ out.dispatch # None
    /\ out.dispatch.tool = S("control_spotify")
    /\ IsDict(out.dispatch.arguments)
    /\ Get(out.dispatch.arguments, "action", None) = S("search")
    /\ Truthy(out.dispatch.after.sp)
    /\ out.dispatch.env.search = "miss"

\* The result the claim names, for the query and type of the dispatch (the
\* dispatcher's defaults when they are missing: "" and track).
NoneFoundResult ==
    [status |-> S("error"),
     message |-> S("No " \o Get(out.dispatch.arguments, "type", S("track")).str
                   \o " found for '"
                   \o Get(out.dispatch.arguments, "query", S("")).str \o "'")]

\* C13 as stated: a search dispatched against an integration with no
\* matching entity returns "No T found for 'Q'" and starts no playback.
C13_Original ==
    SearchWithoutMatch =>
        /\ ~out.dispatch.raised
        /\ out.dispatch.value = NoneFoundResult
        /\ \A i \in DOMAIN out.dispatch.calls : out.dispatch.calls[i] # "start_playback"

\* C13, amended: when a device id is cached or the device lookup finds one,
\* a search with no matching entity returns "No T found for 'Q'", T and Q as
\* the caller gave them, after a search call and without a playback call.
C13_NoMatchWithDevice ==
    (SearchWithoutMatch /\ Truthy(out.dispatch.after.device_id)) =>
        /\ ~out.dispatch.raised
        /\ out.dispatch.value = NoneFoundResult
        /\ \E i \in DOMAIN out.dispatch.calls : out.dispatch.calls[i] = "search"
        /\ \A i \in DOMAIN out.dispatch.calls : out.dispatch.calls[i] # "start_playback"

\* C13 witness: a search of type song (searched as tracks) for Imagine found
\* nothing, after the device was looked up by this very dispatch.
C13_Witness ==
    /\ SearchWithoutMatch
    /\ Get(out.dispatch.arguments, "type", None) = S("song")
    /\ out.dispatch.before # None
    /\ out.dispatch.before.device_id = None
    /\ out.dispatch.after.device_id = S("d2")
    /\ out.dispatch.value["message"] = S("No song found for 'Imagine'")

\* A transport control (play, pause, skip, previous) was dispatched and its
\* playback call was answered with outcome o.
TransportControlAnswered(o) ==
    /\ DispatchReturned
    /\ out.dispatch.tool = S("control_spotify")
    /\ Get(out.dispatch.arguments, "action", None)
         \in {S("play"), S("pause"), S("skip"), S("previous")}
    /\ Truthy(out.dispatch.after.sp)
    /\ out.dispatch.env.play = o

NoActiveDevice ==
    [status |-> S("error"),
     message |-> S("No active device found. Please open Spotify.")]

PremiumRequired ==
    [status |-> S("error"),
     message |-> S("Premium account required for playback control.")]

\* C14: play, pause, skip or previous answered "no active device" (HTTP 404)
\* returns exactly {status: error, message: "No active device found. Please
\* open Spotify."}; insufficient privileges (403) and every other failure of
\* the call return error results different from it and from each other.
C14_NoActiveDeviceDistinct ==
    /\ TransportControlAnswered("404") => out.dispatch.value = NoActiveDevice
    /\ TransportControlAnswered("403") => out.dispatch.value = PremiumRequired
    /\ (TransportControlAnswered("500") \/ TransportControlAnswered("exc")) =>
          /\ out.dispatch.value["status"] = S("error")
          /\ out.dispatch.value # NoActiveDevice
          /\ out.dispatch.value # PremiumRequired

\* C14 witness: skip was answered "no active device".
C14_Witness ==
    /\ TransportControlAnswered("404")
    /\ out.dispatch.arguments = [action |-> S("skip")]
    /\ out.dispatch.calls = <<"next_track">>
    /\ out.dispatch.value = NoActiveDevice

\* control_spotify was dispatched with an action that is none of play,
\* pause, skip, previous, search, current, or with no action.
UnrecognisedAction ==
    /\ out.via \in {"http", "ws"}
    /\ out.dispatch # None
    /\ out.dispatch.tool = S("control_spotify")
    /\ IsDict(out.dispatch.arguments)
    /\ Get(out.dispatch.arguments, "action", None) \notin
         {S("play"), S("pause"), S("skip"), S("previous"), S("search"), S("current")}

\* C15 as stated: for an unrecognised action the dispatcher returns no
\* result that describes an error.
C15_Original ==
    UnrecognisedAction =>
        \/ out.dispatch.raised
        \/ Get(out.dispatch.value, "status", None) # S("error")

\* C15, amended: an unrecognised action matches no arm of the action chain
\* and reaches the dispatcher's final return: the result is {status: error,
\* message: "Unknown tool: control_spotify"}, after the singleton was
\* fetched (and constructed if it did not exist) and without any playback,
\* search or status call.
C15_UnrecognisedActionIsUnknownTool ==
    UnrecognisedAction =>
        /\ ~out.dispatch.raised
        /\ out.dispatch.value =
             [status |-> S("error"), message |-> S("Unknown tool: control_spotify")]
        /\ out.dispatch.after # None
        /\ out.dispatch.constructed <=> out.dispatch.before = None
        /\ \A i \in DOMAIN out.dispatch.calls :
             out.dispatch.calls[i] \in {"current_user", "devices"}
        /\ ~out.dispatch.constructed => out.dispatch.calls = <<>>

\* C15 witness: control_spotify was dispatched without an action on an
\* existing singleton and answered "Unknown tool: control_spotify".
C15_Witness ==
    /\ UnrecognisedAction
    /\ out.dispatch.arguments = EmptyDict
    /\ out.dispatch.before # None
    /\ out.dispatch.value["message"] = S("Unknown tool: control_spotify")

\* The iteration in progress on the connection turned a failure into data:
\* a result of type error, or an execution_result of status error.
DataFailure ==
    /\ out.via = "ws"
    /\ \/ out.result["type"] = S("error")
       \/ /\ "execution_result" \in DOMAIN out.result
          /\ Get(out.result["execution_result"], "status", None) = S("error")

\* The state part of C16: an iteration either has its payload ready to send
\* or an exception left it and it has none; a failure turned into data is of
\* the first kind.
C16_State ==
    /\ (out.via = "ws" /\ ~out.raised) =>
          wsPc = "sending" /\ out.response = out.result
    /\ (out.via = "ws" /\ out.raised) =>
          wsPc = "failed" /\ out.response = None
    /\ DataFailure => ~out.raised
    /\ wsPc = "closed" => out.via # "ws"

\* The step part of C16: the loop is left only from a receive that raised, a
\* pipeline that raised or a send that raised; an exception in the pipeline
\* always ends it, without a response; a payload is either sent, and the loop
\* receives again, or the send fails; once ended, nothing is received or
\* sent.
C16_Step ==
    /\ wsPc = "closed" => (wsPc' = "closed" /\ wsIn' = wsIn /\ wsOut' = wsOut)
    /\ wsPc = "failed" => (wsPc' \in {"failed", "closed"} /\ wsIn' = wsIn /\ wsOut' = wsOut)
    /\ (wsPc = "sending" /\ wsPc' # "sending") =>
          \/ wsPc' = "receiving" /\ wsOut' = Append(wsOut, out.text) /\ wsIn' = wsIn
          \/ wsPc' = "closed" /\ wsOut' = wsOut /\ wsIn' = wsIn
    /\ (wsPc = "receiving" /\ wsPc' # "receiving") =>
          \/ wsPc' = "closed" /\ wsIn' = wsIn /\ wsOut' = wsOut
          \/ /\ wsPc' = (IF out'.raised THEN "failed" ELSE "sending")
             /\ Len(wsIn') = Len(wsIn) + 1
             /\ wsOut' = wsOut
    /\ (wsPc # "closed" /\ wsPc' = "closed") =>
          Len(wsIn) \in {Len(wsOut), Len(wsOut) + 1}

\* C16: the persistent-channel loop ends exactly when an exception leaves an
\* iteration (in receiving, in the pipeline or in sending); afterwards
\* nothing more is received or sent on the connection and the message being
\* processed gets no response; a failure turned into a data value (type
\* error, execution_result of status error) is sent like any response and
\* the loop goes on to receive.
C16_LoopEndsOnEscapingException ==
    []C16_State /\ [][C16_Step]_vars

\* C16 witness: the first message was answered, the second was received and
\* the loop ended without a response to it.
C16_Witness ==
    /\ wsPc = "closed"
    /\ Len(wsIn) = 2
    /\ Len(wsOut) = 1

\* C16 witness, the other half: an integration failure turned into an
\* execution_result of status error is being sent as the second response.
C16_DataFailureSent ==
    /\ DataFailure
    /\ wsPc = "sending"
    /\ Len(wsOut) = 1
    /\ out.result["type"] = S("tool_call")

\* The user message carrying a request text.
UserMessage(text) == [role |-> S("user"), content |-> S(text)]

\* C17: the message sequence sent to the model for a request is the system
\* instruction, then the entries of the caller's context in their order
\* (none when the context is absent or empty), then one user message with
\* the request text, and it is sent in one client call; on the persistent
\* channel, which passes no context, it is [system, user(text)] for every
\* message, whatever was received before on the connection.
C17_MessagesAreSystemContextUser ==
    out.via \in {"http", "ws"} =>
        /\ out.client_calls = 1
        /\ out.messages =
             <<SystemMessage>>
               \o (IF out.context = None THEN <<>> ELSE out.context.list)
               \o <<UserMessage(out.text)>>
        /\ out.via = "ws" =>
             /\ out.context = None
             /\ out.text = wsIn[Len(wsIn)]
             /\ out.messages = <<SystemMessage, UserMessage(wsIn[Len(wsIn)])>>

\* C17 witness: a single-shot request with a context of two entries was
\* resolved: the model saw system, the two entries in order, the user text.
C17_Witness ==
    /\ out.via = "http"
    /\ out.context # None
    /\ Len(out.context.list) = 2
    /\ Len(out.messages) = 4
    /\ out.messages[2] = out.context.list[1]
    /\ out.messages[3] = [role |-> S("assistant"), content |-> S("Done.")]
    /\ out.messages[4] = UserMessage(out.text)

\* The second message of a connection, different from the first, was
\* resolved from [system, user(text)] alone.
C17_SecondMessageAlone ==
    /\ out.via = "ws"
    /\ Len(wsIn) = 2
    /\ wsIn[1] # wsIn[2]
    /\ out.messages = <<SystemMessage, UserMessage(wsIn[2])>>

\* The calls that act on a playback device.
PlaybackCalls == {"start_playback", "pause_playback", "next_track", "previous_track"}

\* A media action that needs a device (play, pause, skip, previous, search)
\* was dispatched on an initialised integration that existed before the
\* dispatch and had no device id cached.
DeviceActionWithoutCachedDevice ==
    /\ DispatchReturned
    /\ out.dispatch.tool = S("control_spotify")
    /\ Get(out.dispatch.arguments, "action", None)
         \in {S("play"), S("pause"), S("skip"), S("previous"), S("search")}
    /\ out.dispatch.before # None
    /\ Truthy(out.dispatch.before.sp)
    /\ out.dispatch.before.device_id = None

\* C18 as stated: when a media action that needs a device runs on an
\* initialised integration with no device id cached, the device query is
\* made before any playback call of that dispatch.
C18_LookupBeforePlayback ==
    DeviceActionWithoutCachedDevice =>
        \A i \in DOMAIN out.dispatch.calls :
            out.dispatch.calls[i] \in PlaybackCalls =>
                \E j \in 1..(i - 1) : out.dispatch.calls[j] = "devices"

\* The device id _get_device caches for a non-empty device list, as the
\* claim states it: the first active device's, else the first device's.
PreferredDevice(devices) ==
    IF \E i \in DOMAIN devices : devices[i].is_active
    THEN devices[CHOOSE i \in DOMAIN devices :
                   /\ devices[i].is_active
                   /\ \A j \in 1..(i - 1) : ~devices[j].is_active].id
    ELSE devices[1].id

\* The answer to the last device query of the dispatch: the constructor's
\* when it made the only one, else the one of search_and_play.
LastDeviceAnswer ==
    IF /\ out.dispatch.constructed
       /\ Cardinality({i \in DOMAIN out.dispatch.calls :
                         out.dispatch.calls[i] = "devices"}) = 1
    THEN out.dispatch.env.devices
    ELSE out.dispatch.env.lookup

\* The dispatch made the device query and its last one got a list.
DeviceListed ==
    /\ DispatchReturned
    /\ out.dispatch.tool = S("control_spotify")
    /\ \E i \in DOMAIN out.dispatch.calls : out.dispatch.calls[i] = "devices"
    /\ ~LastDeviceAnswer.raised

\* C19 as stated: a non-empty device list makes the cached id that of the
\* first active device, else of the first device; an empty list makes it
\* null and the operation fails with a no-device error; and every later
\* operation that needs a device, while none is cached and none exists,
\* goes through the same lookup and fails the same way.
C19_DeviceResolution ==
    /\ (DeviceListed /\ LastDeviceAnswer.devices # <<>>) =>
          out.dispatch.after.device_id = PreferredDevice(LastDeviceAnswer.devices)
    /\ (DeviceListed /\ LastDeviceAnswer.devices = <<>>) =>
          out.dispatch.after.device_id = None
    /\ (DeviceActionWithoutCachedDevice /\ out.dispatch.env.lookup = DevList(<<>>)) =>
          /\ \E i \in DOMAIN out.dispatch.calls : out.dispatch.calls[i] = "devices"
          /\ out.dispatch.after.device_id = None
          /\ out.dispatch.value["status"] = S("error")
          /\ out.dispatch.value["message"] \in
               {S("No Spotify device available. Please open Spotify."),
                S("No active device found. Please open Spotify.")}

\* The sum of counter f over the handlers in T.
RECURSIVE Total(_, _)
Total(T, f) ==
    IF T = {} THEN 0
    ELSE LET t == CHOOSE x \in T : TRUE
         IN  tasks[t][f] + Total(T \ {t}, f)

\* C20: however the handlers of concurrent single-shot requests and
\* channel messages interleave at their suspension points, SpotifyService()
\* runs at most once, at most one dispatch finds the singleton unset, and
\* every handler that dispatched control_spotify got the instance that is
\* the singleton now.
C20_SingletonConstructedOnce ==
    /\ Total(Tasks, "constructions") <= 1
    /\ Total(Tasks, "unset") <= 1
    /\ \A t \in Tasks :
         tasks[t].dispatches > 0 =>
             /\ svc # None
             /\ tasks[t].instance = svc.instance
    /\ Total(Tasks, "dispatches") > 0 => Total(Tasks, "constructions") = 1

\* C20 witness: the second single-shot request constructed the singleton;
\* the first one and both messages of the channel, the second of which is
\* still being sent, were dispatched to the same instance.
C20_Witness ==
    /\ tasks["post2"].constructions = 1
    /\ tasks["post1"].dispatches = 1
    /\ tasks["post1"].pc = "responded"
    /\ tasks["ws1"].dispatches = 2
    /\ tasks["ws1"].pc = "sending"
    /\ tasks["ws1"].instance = tasks["post2"].instance

\* control_spotify was dispatched with one of its six actions.
MediaActionDispatched ==
    /\ out.via \in {"http", "ws"}
    /\ out.dispatch # None
    /\ out.dispatch.tool = S("control_spotify")
    /\ IsDict(out.dispatch.arguments)
    /\ Get(out.dispatch.arguments, "action", None) \in
         {S("play"), S("pause"), S("skip"), S("previous"), S("search"), S("current")}

\* The state part of C21: a construction whose checks fail still leaves a
\* cached singleton, without a client; a media action dispatched on a
\* singleton without a client returns the "not initialized" error, makes no
\* integration call, constructs nothing and leaves the singleton as it was.
C21_State ==
    /\ (/\ out.via \in {"http", "ws"}
        /\ out.dispatch # None
        /\ out.dispatch.constructed
        /\ out.dispatch.env.init # "ok") =>
          /\ out.dispatch.after # None
          /\ out.dispatch.after.sp = None
          /\ svc = out.dispatch.after
    /\ (/\ MediaActionDispatched
        /\ out.dispatch.after # None
        /\ out.dispatch.after.sp = None) =>
          /\ ~out.dispatch.raised
          /\ out.dispatch.value =
               [status |-> S("error"),
                message |-> S("Spotify not initialized. Please run auth_spotify_fixed.py")]
    /\ (/\ MediaActionDispatched
        /\ out.dispatch.before # None
        /\ out.dispatch.before.sp = None) =>
          /\ out.dispatch.calls = <<>>
          /\ ~out.dispatch.constructed
          /\ out.dispatch.after = out.dispatch.before
          /\ svc = out.dispatch.before

\* The step part of C21: a singleton without a client is never replaced nor
\* given a client.
C21_Step ==
    (svc # None /\ svc.sp = None) => svc' = svc

\* C21: a failed lazy initialisation is permanent: the singleton constructed
\* without an authenticated client (missing credentials, no token cache, no
\* cached token, failed refresh or failed connection test) stays cached and
\* is never initialised again, and every later dispatch of play, pause, skip,
\* previous, search or current returns {status: error, message: "Spotify not
\* initialized. Please run auth_spotify_fixed.py"} without any integration
\* call.
C21_FailedInitIsPermanent ==
    []C21_State /\ [][C21_Step]_vars

\* C21 witness: on a connection whose first message constructed the
\* singleton without a client, the second message asked for a search and was
\* answered "not initialized" with no integration call.
C21_Witness ==
    /\ MediaActionDispatched
    /\ out.via = "ws"
    /\ Len(wsIn) = 2
    /\ out.dispatch.arguments["action"] = S("search")
    /\ out.dispatch.before # None
    /\ out.dispatch.before.sp = None
    /\ out.dispatch.calls = <<>>
    /\ out.dispatch.value["message"] =
         S("Spotify not initialized. Please run auth_spotify_fixed.py")

====
